---- MODULE Spec2Model ----
(***************************************************************************)
(* The tool execution and self-repair pipeline of the repository:          *)
(*   app/tools/executor.py            execute_tool (registry-backed)       *)
(*   experiments/ex2_.../run_experiment.py  run_single_execution           *)
(*   app/tools/registry.py            get_tool, update_tool_adapter        *)
(*   app/tools/synthesizer.py         repair_adapter (the repair Oracle)   *)
(*                                                                         *)
(* One call of execute is a sequence of steps (the code positions between  *)
(* which something observable happens); calls follow one another and share *)
(* only the registry.  Both implementations of the pipeline are modelled;  *)
(* impl says which one the calls run.  The repair budget k is max_repair   *)
(* in run_single_execution and the module constant                         *)
(* MAX_AUTO_REPAIR_ATTEMPTS in execute_tool (set to 0 in the source, which *)
(* disables repair there); the model takes it as a parameter 0..MaxRepair  *)
(* of both.                                                                *)
(*                                                                         *)
(* Spec            one pipeline call after another                         *)
(* SanitizerSpec   _sanitize_json_floats applied to every tree, twice      *)
(* ConcurrentSpec  execute_tool calls side by side on the work directories *)
(***************************************************************************)
EXTENDS Integers, Sequences, FiniteSets, TLC

\* ---------------------------------------------------------------- bounds
MaxRepair == 1      \* largest repair budget k explored
MaxDepth  == 2      \* nesting depth of the trees post-process may return
MaxCalls  == 2      \* execute_tool calls running side by side
MaxClock  == 1      \* last millisecond of the clock

\* ---------------------------------------------------- program constants
max_retries == 2    \* provider attempts inside one repair_adapter call

\* ------------------------------------------------------------- JSON trees
\* A Python value returned by a post-processor: float leaves (finite, nan,
\* inf, -inf), None, an object json cannot encode (a set), and the three
\* containers dict, list, tuple.  c holds the children (dict values in
\* insertion order).
Leaf(t, f) == [t |-> t, f |-> f, c |-> <<>>]
Node(t, c) == [t |-> t, f |-> "", c |-> c]
PyNone == Leaf("none", "")
FloatKinds == {"fin", "nan", "inf", "-inf"}
Leaves == {Leaf("float", f) : f \in FloatKinds} \cup {PyNone, Leaf("set", "")}
Containers == {"dict", "list", "tuple"}

RECURSIVE Trees(_)
Trees(d) ==
    IF d = 0 THEN Leaves
    ELSE LET S == Trees(d - 1)
         IN  Leaves \cup {Node(t, <<>>) : t \in Containers}
                    \cup {Node(t, <<x>>) : t \in Containers, x \in S}

\* math.isnan(obj) or math.isinf(obj)
NonFinite(x) == x.t = "float" /\ x.f \in {"nan", "inf", "-inf"}

RECURSIVE CleanSeq(_), ChangedSeq(_)
\* faulty variant: every float counts as a modification
SanitizeFlagsEveryFloat(obj) ==
    IF obj.t \in {"dict", "list"}
    THEN [tree |-> Node(obj.t, CleanSeq(obj.c)), changed |-> ChangedSeq(obj.c)]
    ELSE IF obj.t = "float"
    THEN [tree |-> IF NonFinite(obj) THEN PyNone ELSE obj, changed |-> TRUE]
    ELSE [tree |-> obj, changed |-> FALSE]

\* _sanitize_json_floats: dict and list are rebuilt element by element, a
\* non-finite float becomes None, every other object is returned as it is.
_sanitize_json_floats(obj) ==
    IF obj.t \in {"dict", "list"}
    THEN [tree |-> Node(obj.t, CleanSeq(obj.c)), changed |-> ChangedSeq(obj.c)]
    ELSE IF obj.t = "float"
    THEN IF NonFinite(obj) THEN [tree |-> PyNone, changed |-> TRUE]
                           ELSE [tree |-> obj, changed |-> FALSE]
    ELSE [tree |-> obj, changed |-> FALSE]

CleanSeq(s) ==
    IF s = <<>> THEN <<>>
    ELSE <<_sanitize_json_floats(Head(s)).tree>> \o CleanSeq(Tail(s))

ChangedSeq(s) ==
    IF s = <<>> THEN FALSE
    ELSE _sanitize_json_floats(Head(s)).changed \/ ChangedSeq(Tail(s))

RECURSIVE HasNonFinite(_), HasUnencodable(_)
\* a non-finite float at any nesting depth
HasNonFinite(x) ==
    NonFinite(x) \/ \E i \in 1..Len(x.c) : HasNonFinite(x.c[i])

\* an object json.dumps has no encoding for, at any nesting depth
HasUnencodable(x) ==
    x.t = "set" \/ \E i \in 1..Len(x.c) : HasUnencodable(x.c[i])

\* json.dumps(obj) with its defaults (allow_nan=True): nan and the
\* infinities are written as NaN / Infinity, a tuple is written as a list,
\* a set raises TypeError.
json_dumps_ok(x) == ~HasUnencodable(x)

\* ------------------------------------------------------- adapter sources
\* An adapter source is a text; what matters of it is what exec() and the
\* call of its function do.  top: what running the module body does;
\* defines: whether the required function name is bound afterwards;
\* arity: its number of parameters; body: what a call of it does
\* ("mutate_import": it changes its argument and then imports a module that
\* restricted_import refuses).
Src(top, defines, arity, body) ==
    [top |-> top, defines |-> defines, arity |-> arity, body |-> body]

PreSources == {"pre_good", "pre_arity1", "pre_arity3", "pre_nodef",
               "pre_import", "pre_raise", "pre_mut_raise", "pre_mut_import"}
PostSources == {"post_good", "post_nodef", "post_raise", "post_mut_raise"}

SourceOf(code) ==
    CASE code = "pre_good"       -> Src("ok", TRUE, 2, "return")
      [] code = "pre_arity1"     -> Src("ok", TRUE, 1, "return")
      [] code = "pre_arity3"     -> Src("ok", TRUE, 3, "return")
      [] code = "pre_nodef"      -> Src("ok", FALSE, 0, "return")
      [] code = "pre_import"     -> Src("ImportError", FALSE, 0, "return")
      [] code = "pre_raise"      -> Src("ok", TRUE, 2, "raise")
      [] code = "pre_mut_raise"  -> Src("ok", TRUE, 2, "mutate_raise")
      [] code = "pre_mut_import" -> Src("ok", TRUE, 2, "mutate_import")
      [] code = "post_good"      -> Src("ok", TRUE, 2, "return")
      [] code = "post_nodef"     -> Src("ok", FALSE, 0, "return")
      [] code = "post_raise"     -> Src("ok", TRUE, 2, "raise")
      [] code = "post_mut_raise" -> Src("ok", TRUE, 2, "mutate_raise")
      [] OTHER                   -> Src("ok", FALSE, 0, "return")

\* The call's private copy of the domain object: "B0" equals the caller's
\* object, "BX" is that object after an adapter stored a set in it (which
\* json.dumps cannot encode).

Outcome(ok, err, invoked, bop) ==
    [ok |-> ok, err |-> err, invoked |-> invoked, bop |-> bop]

\* faulty variant: the signature is not inspected before the call, so a function of
\* one parameter fails in the call itself
RunPreprocessorUnchecked(code, bop) ==
    LET s == SourceOf(code)
    IN  IF s.top # "ok" THEN Outcome(FALSE, s.top, FALSE, bop)
        ELSE IF ~s.defines THEN Outcome(FALSE, "ValueError:undefined", FALSE, bop)
        ELSE IF s.arity # 2 THEN Outcome(FALSE, "TypeError", FALSE, bop)
        ELSE IF s.body = "raise" THEN Outcome(FALSE, "Exception", TRUE, bop)
        ELSE IF s.body = "mutate_raise" THEN Outcome(FALSE, "Exception", TRUE, "BX")
        ELSE IF s.body = "mutate_import" THEN Outcome(FALSE, "ImportError", TRUE, "BX")
        ELSE Outcome(TRUE, "", TRUE, bop)

\* faulty variant: the signature test is `< 1`, so a function of one
\* parameter reaches the call
SignatureCheckOffByOne(code, bop) ==
    LET s == SourceOf(code)
    IN  IF s.top # "ok" THEN Outcome(FALSE, s.top, FALSE, bop)
        ELSE IF ~s.defines THEN Outcome(FALSE, "ValueError:undefined", FALSE, bop)
        ELSE IF s.arity < 1 THEN Outcome(FALSE, "ValueError:signature", FALSE, bop)
        ELSE IF s.arity # 2 THEN Outcome(FALSE, "TypeError", FALSE, bop)
        ELSE IF s.body = "raise" THEN Outcome(FALSE, "Exception", TRUE, bop)
        ELSE IF s.body = "mutate_raise" THEN Outcome(FALSE, "Exception", TRUE, "BX")
        ELSE IF s.body = "mutate_import" THEN Outcome(FALSE, "ImportError", TRUE, "BX")
        ELSE Outcome(TRUE, "", TRUE, bop)

\* _run_preprocessor(code, bop_data, params): exec the source, look the
\* function up, check its signature, call it.
_run_preprocessor(code, bop) ==
    LET s == SourceOf(code)
    IN  IF s.top # "ok" THEN Outcome(FALSE, s.top, FALSE, bop)
        ELSE IF ~s.defines THEN Outcome(FALSE, "ValueError:undefined", FALSE, bop)
        ELSE IF s.arity < 2 THEN Outcome(FALSE, "ValueError:signature", FALSE, bop)
        ELSE IF s.arity > 2 THEN Outcome(FALSE, "TypeError", FALSE, bop)
        ELSE IF s.body = "raise" THEN Outcome(FALSE, "Exception", TRUE, bop)
        ELSE IF s.body = "mutate_raise" THEN Outcome(FALSE, "Exception", TRUE, "BX")
        ELSE IF s.body = "mutate_import" THEN Outcome(FALSE, "ImportError", TRUE, "BX")
        ELSE Outcome(TRUE, "", TRUE, bop)

\* _run_postprocessor(code, bop_data, tool_output): as above without the
\* signature check; ret is the value the function body returns, which must
\* be a dict.
_run_postprocessor(code, bop, ret) ==
    LET s == SourceOf(code)
    IN  IF s.top # "ok" THEN Outcome(FALSE, s.top, FALSE, bop)
        ELSE IF ~s.defines THEN Outcome(FALSE, "ValueError:undefined", FALSE, bop)
        ELSE IF s.body = "raise" THEN Outcome(FALSE, "Exception", TRUE, bop)
        ELSE IF s.body = "mutate_raise" THEN Outcome(FALSE, "Exception", TRUE, "BX")
        ELSE IF ret.t # "dict" THEN Outcome(FALSE, "ValueError:not_dict", TRUE, bop)
        ELSE Outcome(TRUE, "", TRUE, bop)

\* ------------------------------------------------------------------ state
VARIABLES
    impl,                 \* which pipeline runs: "execute_tool" | "run_single_execution"
    repair_budget,        \* k: MAX_AUTO_REPAIR_ATTEMPTS / max_repair
    pc,                   \* position of the current call in the function
    registry,             \* adapter.json of the tool: [pre, post]
    adapter,              \* the AdapterCode the call loaded (entry.adapter / pre_code, post_code)
    current_pre_code,
    current_post_code,
    attempt,              \* loop variable of the running repair loop
    repair_attempts_used, \* exec_log["auto_repair_attempts"] / repair_attempts_used
    provider_attempt,     \* loop variable inside repair_adapter
    bop_data,             \* the call's deep copy of the caller's object
    work_dir,             \* "none" | "exists" | "removed"
    child,                \* the tool's process: "none" | "running" | "exited" | "killed"
    stdout,               \* text the tool printed: "" | "S" | "F" (the text of its file)
    tool_output,          \* text handed to post-process: "" | "F" | "S"
    updated_bop,          \* value returned by post-process, then sanitized
    result,               \* what the call gave back to its caller
    last_error,           \* pre_error / post_error
    hist,                 \* what has happened in this call (observation only)
    san,                  \* the sanitizer on its own: its argument and what it returned
    clock,                \* int(time.time() * 1000)
    dirs,                 \* the directories under WORKDIR_BASE and their files
    calls,                \* execute_tool calls running side by side
    cancelled,            \* the caller has cancelled the running call
    adapters              \* the registry's adapter.json of every tool

\* the state of one pipeline call
Pipeline == <<impl, repair_budget, pc, registry, adapter, current_pre_code,
              current_post_code, attempt, repair_attempts_used, provider_attempt,
              bop_data, work_dir, child, stdout, tool_output, updated_bop, result,
              last_error, hist>>
\* the state the pipeline steps leave alone
Aside == <<san, clock, dirs, calls, cancelled, adapters>>
vars == <<Pipeline, Aside>>

Impls == {"execute_tool", "run_single_execution"}
Absent == Leaf("absent", "")
AdapterCode(pre, post) == [pre |-> pre, post |-> post]

\* hist: consults = repair_adapter calls started, consults_at_sub = their
\* number when the tool was launched, reply = what the last one returned;
\* reg_reads = get_tool calls, reg_write_calls = update_tool_adapter calls,
\* reg_writes = those that rewrote adapter.json; return_code = the tool's
\* exit status (-1: none); the
\* flags and counters record which steps of the pipeline were passed; sub =
\* how the tool ended ("timeout", "nonzero", "no_output", "output");
\* invoked = the last pre-process attempt entered the adapter function;
\* file = what the tool left in its output file;
\* ser_failed = json.dumps of a post-process result raised in this call.
Hist0 == [consults |-> 0, consults_at_sub |-> 0, reply |-> "",
          reg_reads |-> 0, reg_write_calls |-> 0, reg_writes |-> 0,
          pre_attempts |-> 0, pre_ok |-> FALSE, invoked |-> FALSE,
          launched |-> FALSE, sub |-> "", return_code |-> -1,
          post_attempts |-> 0, post_failures |-> 0, post_ok |-> FALSE,
          sanitize_ran |-> FALSE, dumps_ok |-> FALSE,
          file |-> "", ser_failed |-> FALSE,
          hard_failure |-> FALSE, transient_end |-> FALSE,
          accepted_pre |-> "", accepted_post |-> "",
          caller_bop |-> "B0"]

NoResult == [kind |-> "none", success |-> FALSE, error_phase |-> "",
             error |-> "", repair_attempts_used |-> -1,
             updated_bop |-> Absent, auto_repaired |-> FALSE,
             tool_output |-> "", stdout |-> "",
             message |-> "", error_type |-> ""]

\* A returned dict.  used is the repair count at the return statement:
\* run_single_execution reports it, execute_tool's dicts do not carry it
\* (it goes to the execution log).  Only execute_tool returns the updated
\* object and the tool's standard output; both success dicts carry the
\* tool's output text.  execute_tool's dicts have a "message" (a fixed
\* text followed by str(e)) and no key for the kind of the error;
\* run_single_execution's have "error_type" and "error_phase" (the fields
\* error and error_phase of the model, which stand for what execute_tool's
\* message says).
Returned(success, phase, err, used, upd, repaired) ==
    [kind |-> "returned", success |-> success, error_phase |-> phase,
     error |-> err,
     repair_attempts_used |-> IF impl = "run_single_execution" THEN used ELSE -1,
     updated_bop |-> IF impl = "execute_tool" THEN upd ELSE Absent,
     auto_repaired |-> repaired,
     tool_output |-> IF success THEN tool_output ELSE "",
     stdout |-> IF success /\ impl = "execute_tool" THEN stdout ELSE "",
     message |-> IF impl = "execute_tool" THEN "text" ELSE err,
     error_type |-> IF impl = "run_single_execution" THEN err ELSE ""]

Failure(phase, err, used) == Returned(FALSE, phase, err, used, Absent, FALSE)

\* an exception that leaves the function
Raised == [NoResult EXCEPT !.kind = "raised"]

PipelineInit ==
    /\ impl \in Impls
    /\ repair_budget \in 0..MaxRepair
    /\ pc = "idle"
    /\ registry \in IF impl = "execute_tool"
                    THEN {AdapterCode(a, b) : a \in PreSources, b \in PostSources}
                    ELSE {AdapterCode("pre_good", "post_good")}
    /\ adapter = registry
    /\ current_pre_code = registry.pre
    /\ current_post_code = registry.post
    /\ attempt = 0
    /\ repair_attempts_used = 0
    /\ provider_attempt = 0
    /\ bop_data = "B0"
    /\ work_dir = "none"
    /\ child = "none"
    /\ stdout = ""
    /\ tool_output = ""
    /\ updated_bop = Absent
    /\ result = NoResult
    /\ last_error = ""
    /\ hist = Hist0

AsideInit ==
    /\ san = [x |-> Absent, rets |-> <<>>]
    /\ clock = 0
    /\ dirs = <<>>
    /\ calls = <<>>
    /\ cancelled = FALSE
    /\ adapters = <<>>

Init == PipelineInit /\ AsideInit

\* the statements every call starts with: fresh locals
Fresh(a) ==
    /\ adapter' = a
    /\ current_pre_code' = a.pre
    /\ current_post_code' = a.post
    /\ attempt' = 0
    /\ repair_attempts_used' = 0
    /\ provider_attempt' = 0
    /\ bop_data' = "B0"
    /\ child' = "none"
    /\ stdout' = ""
    /\ tool_output' = ""
    /\ updated_bop' = Absent
    /\ last_error' = ""

\* finally: try: shutil.rmtree(work_dir) / except Exception: pass.  rmtree
\* raises when an entry the tool left in the directory cannot be removed
\* (the tool ran with the directory as its cwd); the directory is then
\* still there.
Cleanup ==
    \E rmtree_raises \in (IF work_dir = "exists" /\ child # "none"
                          THEN BOOLEAN ELSE {FALSE}) :
        work_dir' = IF work_dir = "exists" /\ ~rmtree_raises THEN "removed"
                    ELSE work_dir

\* a return statement inside the try block
Finish(res) ==
    /\ pc' = "done"
    /\ result' = res
    /\ Cleanup

\* execute_tool up to the try block: deep copy, get_tool, get_script_path,
\* work_dir.mkdir.  fault is what the environment does to the call.
StartFaults == {"none", "tool_missing", "registry_corrupt", "script_missing", "mkdir_fails"}
StartExecuteTool ==
    /\ impl = "execute_tool"
    /\ pc = "idle"
    /\ Fresh(registry)
    /\ hist' = [Hist0 EXCEPT !.reg_reads = 1]
    /\ \E fault \in StartFaults :
         CASE fault = "tool_missing" ->
                /\ pc' = "done" /\ result' = Failure("tool_not_found", "tool_not_found", 0)
                /\ work_dir' = "none"
           [] fault = "registry_corrupt" ->
                /\ pc' = "done" /\ result' = Raised /\ work_dir' = "none"
           [] fault = "script_missing" ->
                /\ pc' = "done" /\ result' = Failure("script_not_found", "script_not_found", 0)
                /\ work_dir' = "none"
           [] fault = "mkdir_fails" ->
                /\ pc' = "done" /\ result' = Raised /\ work_dir' = "none"
           [] OTHER ->
                /\ pc' = "pre" /\ result' = NoResult /\ work_dir' = "exists"
    /\ UNCHANGED <<impl, repair_budget, registry>>
    /\ UNCHANGED Aside

\* run_single_execution up to the try block: deep copy, tempfile.mkdtemp.
\* The adapter sources are arguments of the call.
StartRunSingleExecution ==
    /\ impl = "run_single_execution"
    /\ pc = "idle"
    /\ \E pre_code \in PreSources, post_code \in PostSources :
         Fresh(AdapterCode(pre_code, post_code))
    /\ hist' = Hist0
    /\ \E mkdtemp_fails \in BOOLEAN :
         IF mkdtemp_fails
         THEN pc' = "done" /\ result' = Raised /\ work_dir' = "none"
         ELSE pc' = "pre" /\ result' = NoResult /\ work_dir' = "exists"
    /\ UNCHANGED <<impl, repair_budget, registry>>
    /\ UNCHANGED Aside

\* `if attempt < MAX_AUTO_REPAIR_ATTEMPTS` / `if attempt < max_repair`
BudgetLeft(att) == att < repair_budget

\* json.dumps(bop_data, ensure_ascii=False, indent=2), the data preview of a
\* pre-process repair request
preview_ok(bop) == bop # "BX"

\* One attempt of the pre-process loop: _run_preprocessor and, when it
\* raises, the except block up to the call of repair_adapter.
\* faulty variant: the adapters are handed the caller's object itself
WorkingObjectShared(caller, working) == working

\* `bop_data = copy.deepcopy(bop_data)` at the start of the call: the
\* adapters are handed a copy, so what they do to it (working) does not
\* reach the object the caller holds (hist.caller_bop)
CallerSees(caller, working) == caller

\* faulty variant: every attempt runs the source loaded from the registry
LoadedPre == adapter.pre

\* `_run_preprocessor(current_pre_code, bop_data)`: the source an attempt runs
ActivePre == current_pre_code

PreAttempt ==
    /\ pc = "pre"
    /\ LET r == _run_preprocessor(ActivePre, bop_data)
           h == [hist EXCEPT !.pre_attempts = @ + 1, !.invoked = r.invoked,
                             !.caller_bop = CallerSees(@, r.bop)]
       IN  /\ bop_data' = r.bop
           /\ IF r.ok
              THEN /\ pc' = "sub"
                   /\ hist' = [h EXCEPT !.pre_ok = TRUE]
                   /\ UNCHANGED <<repair_attempts_used, last_error, result,
                                  work_dir, provider_attempt>>
              ELSE /\ last_error' = r.err
                   /\ IF BudgetLeft(attempt)
                      THEN /\ repair_attempts_used' = repair_attempts_used + 1
                           /\ IF preview_ok(r.bop)
                              THEN /\ pc' = "pre_repair"
                                   /\ provider_attempt' = 0
                                   /\ hist' = [h EXCEPT !.consults = @ + 1]
                                   /\ UNCHANGED <<result, work_dir>>
                              ELSE \* TypeError inside the handler: outer except
                                   /\ hist' = h
                                   /\ Finish(Failure("unexpected", "TypeError",
                                                     repair_attempts_used + 1))
                                   /\ UNCHANGED provider_attempt
                      ELSE /\ hist' = h
                           /\ Finish(Failure("pre_process", r.err, repair_attempts_used))
                           /\ UNCHANGED <<repair_attempts_used, provider_attempt>>
    /\ UNCHANGED <<impl, repair_budget, registry, adapter, current_pre_code,
                   current_post_code, attempt, child, stdout, tool_output,
                   updated_bop>>
    /\ UNCHANGED Aside

\* What the orchestrator does with the value repair_adapter returned:
\* `if fixed_code:` swap the phase's source and loop, else break and return
\* the phase's failure.  NoCode stands for None.
\* hist.accepted_pre and hist.accepted_post keep the reply last accepted for
\* each phase; hist.transient_end says that the consultation ended without a
\* reply only because every provider attempt met a connection error.
NoCode == "<None>"

\* faulty variant: `if fixed_code is not None`
AcceptedUnlessNone(fixed_code) == fixed_code # NoCode

\* `if fixed_code:`
Accepted(fixed_code) == fixed_code \notin {"", NoCode}

Resume(fixed_code, transient_end) ==
    /\ hist' = [hist EXCEPT
                   !.reply = fixed_code,
                   !.hard_failure = FALSE,
                   !.transient_end = transient_end,
                   !.accepted_pre = IF Accepted(fixed_code) /\ pc = "pre_repair"
                                    THEN fixed_code ELSE @,
                   !.accepted_post = IF Accepted(fixed_code) /\ pc = "post_repair"
                                     THEN fixed_code ELSE @]
    /\ IF Accepted(fixed_code)
       THEN /\ IF pc = "pre_repair"
               THEN current_pre_code' = fixed_code /\ UNCHANGED current_post_code
               ELSE current_post_code' = fixed_code /\ UNCHANGED current_pre_code
            /\ attempt' = attempt + 1
            /\ pc' = IF pc = "pre_repair" THEN "pre" ELSE "post"
            /\ UNCHANGED <<result, work_dir>>
       ELSE /\ Finish(Failure(IF pc = "pre_repair" THEN "pre_process" ELSE "post_process",
                              last_error, repair_attempts_used))
            /\ UNCHANGED <<current_pre_code, current_post_code, attempt>>

InRepair == pc \in {"pre_repair", "post_repair"}
OracleFrame == <<impl, repair_budget, registry, adapter, repair_attempts_used,
                 bop_data, child, stdout, tool_output, updated_bop, last_error>>

\* repair_adapter: get_provider raises, None is returned before any attempt
OracleProviderUnavailable ==
    /\ InRepair
    /\ provider_attempt = 0
    /\ Resume(NoCode, FALSE)
    /\ UNCHANGED <<provider_attempt>>
    /\ UNCHANGED OracleFrame
    /\ UNCHANGED Aside

\* repair_adapter: an attempt raises, because the provider could not be
\* reached (connection) or because the reply could not be parsed and no
\* fixed_code was found in its text (unparsable): retry, or None after the
\* last attempt
AttemptFailures == {"connection", "unparsable"}
OracleAttemptFails ==
    /\ InRepair
    /\ \E cause \in AttemptFailures :
         IF provider_attempt < max_retries - 1
         THEN /\ provider_attempt' = provider_attempt + 1
              /\ hist' = [hist EXCEPT !.hard_failure = @ \/ cause = "unparsable"]
              /\ UNCHANGED <<pc, result, work_dir, current_pre_code,
                             current_post_code, attempt>>
         ELSE /\ Resume(NoCode, ~hist.hard_failure /\ cause = "connection")
              /\ UNCHANGED provider_attempt
    /\ UNCHANGED OracleFrame
    /\ UNCHANGED Aside

\* repair_adapter: an attempt yields fixed_code.  An empty fixed_code comes
\* back as None (parsed reply) or as "" (extracted from the text).
OracleReplies ==
    /\ InRepair
    /\ \E fixed_code \in (IF pc = "pre_repair" THEN PreSources ELSE PostSources)
                          \cup {"", NoCode} :
         Resume(fixed_code, FALSE)
    /\ UNCHANGED <<provider_attempt>>
    /\ UNCHANGED OracleFrame
    /\ UNCHANGED Aside

\* faulty variant: the exit status is ignored
ExitStatusIgnored(return_code) == TRUE

\* `if return_code != 0:` decides whether the output is looked at
ExitedOk(return_code) == return_code = 0

\* faulty variant: a populated output file is used whatever the exit status
OutputTrusted(return_code, file) == ExitedOk(return_code) \/ file = "content"

\* `if return_code != 0: return {...}` stands before the output file is
\* looked at.
OutputCollected(return_code, file) == ExitedOk(return_code)

\* The text the tool produced: the output file when it could be read and is
\* not empty, else standard output (`if not tool_output: tool_output = stdout`).
ResolveOutput(file, printed) == IF file = "content" THEN "F" ELSE printed

\* The output file after the tool ran: not there, empty, holding the text
\* "F", or holding bytes that open()/read() cannot deliver (unreadable).
FileStates == {"missing", "empty", "content", "unreadable"}
\* What the tool printed: nothing, a text of its own, or the text of its file.
Stdouts == {"", "S", "F"}
SubFrame == <<impl, repair_budget, registry, adapter, current_pre_code,
              current_post_code, repair_attempts_used, provider_attempt,
              bop_data, updated_bop, last_error>>

\* Write the input file and start the tool (subprocess.run, up to the
\* creation of the child process).
Launch ==
    /\ pc = "sub"
    /\ pc' = "wait"
    /\ child' = "running"
    /\ hist' = [hist EXCEPT !.launched = TRUE, !.consults_at_sub = hist.consults]
    /\ UNCHANGED <<stdout, tool_output, attempt, result, work_dir>>
    /\ UNCHANGED SubFrame
    /\ UNCHANGED Aside

\* faulty variant: the wait gives up at the timeout and leaves the child alone
AbandonedChild == "running"

\* subprocess.run(..., timeout=SUBPROCESS_TIMEOUT_SEC) kills the child and
\* reaps it before TimeoutExpired reaches the caller.
TimedOutChild == "killed"

\* fail(phase, err): the failure returns after the tool was started
SubFail(h, phase, err) ==
    /\ hist' = h
    /\ Finish(Failure(phase, err, repair_attempts_used))
    /\ UNCHANGED <<tool_output, attempt>>

\* The rest of subprocess.run (_execute_subprocess) and the collection of
\* the tool's output.
Subprocess ==
    /\ pc = "wait"
    /\ \/ /\ child' = TimedOutChild
          /\ UNCHANGED stdout
          /\ SubFail([hist EXCEPT !.sub = "timeout"], "timeout", "TimeoutError")
       \/ \E return_code \in {0, 1}, file \in FileStates, printed \in Stdouts :
            LET out == ResolveOutput(file, printed)
                h   == [hist EXCEPT !.return_code = return_code, !.file = file]
            IN  /\ child' = "exited"
                /\ stdout' = printed
                /\ IF ~OutputCollected(return_code, file)
                   THEN SubFail([h EXCEPT !.sub = "nonzero"], "exit", "SubprocessError")
                   ELSE IF impl = "run_single_execution" /\ file = "unreadable"
                   THEN \* open() / read() raises: outer except
                        SubFail([h EXCEPT !.sub = "output"], "unexpected", "OSError")
                   ELSE IF impl = "run_single_execution" /\ out = ""
                   THEN SubFail([h EXCEPT !.sub = "no_output"], "no_output", "NoOutput")
                   ELSE /\ hist' = [h EXCEPT !.sub = IF out = "" THEN "no_output"
                                                                ELSE "output"]
                        /\ tool_output' = out
                        /\ attempt' = 0
                        /\ pc' = "post"
                        /\ UNCHANGED <<result, work_dir>>
    /\ UNCHANGED SubFrame
    /\ UNCHANGED Aside

\* _ensure_process_completeness(original_bop, updated_bop): adds details for
\* the entries of updated_bop["processes"]; the trees of this model have no
\* such entry, and then the function returns updated_bop itself.
_ensure_process_completeness(original_bop, upd) == upd

\* what the body of the post-process function can return, when it returns
ReturnValues(code) ==
    IF SourceOf(code).top = "ok" /\ SourceOf(code).defines
       /\ SourceOf(code).body = "return"
    THEN Trees(MaxDepth) ELSE {PyNone}

\* One attempt of the post-process loop: _run_postprocessor (in
\* run_single_execution followed by json.dumps and the success return inside
\* the same try) and, when it raises, the except block up to repair_adapter.
\* `_run_postprocessor(current_post_code, bop_data, tool_output)`
ActivePost == current_post_code

PostAttempt ==
    /\ pc = "post"
    /\ \E ret \in ReturnValues(ActivePost) :
         LET r    == _run_postprocessor(ActivePost, bop_data, ret)
             good == r.ok /\ (impl = "run_single_execution" => json_dumps_ok(ret))
             err  == IF r.ok THEN "TypeError:json" ELSE r.err
             h    == [hist EXCEPT !.post_attempts = @ + 1,
                                  !.ser_failed = @ \/ (r.ok /\ ~good),
                                  !.caller_bop = CallerSees(@, r.bop)]
         IN  /\ bop_data' = r.bop
             /\ IF good
                THEN /\ updated_bop' = ret
                     /\ UNCHANGED <<repair_attempts_used, last_error, provider_attempt>>
                     /\ IF impl = "execute_tool"
                        THEN /\ pc' = "sanitize"
                             /\ hist' = [h EXCEPT !.post_ok = TRUE]
                             /\ UNCHANGED <<result, work_dir>>
                        ELSE /\ hist' = [h EXCEPT !.post_ok = TRUE, !.dumps_ok = TRUE]
                             /\ Finish(Returned(TRUE, "", "", repair_attempts_used,
                                                ret, FALSE))
                ELSE /\ last_error' = err
                     /\ UNCHANGED updated_bop
                     /\ IF BudgetLeft(attempt)
                        THEN /\ repair_attempts_used' = repair_attempts_used + 1
                             /\ pc' = "post_repair"
                             /\ provider_attempt' = 0
                             /\ hist' = [h EXCEPT !.post_failures = @ + 1,
                                                  !.consults = @ + 1]
                             /\ UNCHANGED <<result, work_dir>>
                        ELSE /\ hist' = [h EXCEPT !.post_failures = @ + 1]
                             /\ Finish(Failure("post_process", err, repair_attempts_used))
                             /\ UNCHANGED <<repair_attempts_used, provider_attempt>>
    /\ UNCHANGED <<impl, repair_budget, registry, adapter, current_pre_code,
                   current_post_code, attempt, child, stdout, tool_output>>
    /\ UNCHANGED Aside

\* execute_tool after the post-process loop: completeness backfill and
\* _sanitize_json_floats
Sanitize ==
    /\ pc = "sanitize"
    /\ LET cleaned == _sanitize_json_floats(
                          _ensure_process_completeness(bop_data, updated_bop))
       IN  updated_bop' = cleaned.tree
    /\ hist' = [hist EXCEPT !.sanitize_ran = TRUE]
    /\ pc' = "boundary"
    /\ UNCHANGED <<impl, repair_budget, registry, adapter, current_pre_code,
                   current_post_code, attempt, repair_attempts_used, provider_attempt,
                   bop_data, work_dir, child, stdout, tool_output, result,
                   last_error>>
    /\ UNCHANGED Aside

\* faulty variant: only the pre-process source is compared
PreSourceChanged == current_pre_code # adapter.pre

\* `if current_pre_code != adapter.pre_process_code or
\*     current_post_code != adapter.post_process_code`
AdapterChanged ==
    current_pre_code # adapter.pre \/ current_post_code # adapter.post

\* faulty variant: the registry is updated before the serialization check
WritesBackEarly(dumps_ok) == AdapterChanged

\* The write-back is reached only past the serialization check.
WritesBack(dumps_ok) == dumps_ok /\ AdapterChanged

\* update_tool_adapter(tool_id, adapter): rewrites adapter.json with the whole
\* AdapterCode and returns True; returns False, leaving the file, when the
\* tool's directory is gone or the file cannot be written.
update_tool_adapter(new_adapter, accepted) ==
    IF accepted THEN new_adapter ELSE registry

\* execute_tool's last steps: the json.dumps test, the registry update and
\* the success return.
Boundary ==
    /\ pc = "boundary"
    /\ LET ok == json_dumps_ok(updated_bop)
       IN  \E accepted \in (IF WritesBack(ok) THEN BOOLEAN ELSE {FALSE}) :
             LET wrote == WritesBack(ok) /\ accepted
             IN  /\ registry' = IF WritesBack(ok)
                                THEN update_tool_adapter(
                                         AdapterCode(current_pre_code, current_post_code),
                                         accepted)
                                ELSE registry
                 /\ hist' = [hist EXCEPT !.dumps_ok = ok, !.ser_failed = ~ok,
                                         !.reg_write_calls =
                                             IF WritesBack(ok) THEN @ + 1 ELSE @,
                                         !.reg_writes = IF wrote THEN @ + 1 ELSE @]
                 /\ IF ok
                    THEN Finish(Returned(TRUE, "", "", repair_attempts_used,
                                         updated_bop, wrote))
                    ELSE Finish(Failure("serialization", "TypeError:json",
                                        repair_attempts_used))
    /\ UNCHANGED <<impl, repair_budget, adapter, current_pre_code,
                   current_post_code, attempt, repair_attempts_used, provider_attempt,
                   bop_data, child, stdout, tool_output, updated_bop, last_error>>
    /\ UNCHANGED Aside

\* The caller has the result and the call's frame is gone: of what the call
\* did only the registry remains for the next call.
Return ==
    /\ pc = "done"
    /\ pc' = "idle"
    /\ Fresh(registry)
    /\ work_dir' = "none"
    /\ result' = NoResult
    /\ hist' = Hist0
    /\ UNCHANGED <<impl, repair_budget, registry>>
    /\ UNCHANGED Aside

Next ==
    \/ StartExecuteTool
    \/ StartRunSingleExecution
    \/ PreAttempt
    \/ OracleProviderUnavailable
    \/ OracleAttemptFails
    \/ OracleReplies
    \/ Launch
    \/ Subprocess
    \/ PostAttempt
    \/ Sanitize
    \/ Boundary
    \/ Return

Spec == Init /\ [][Next]_vars

\* ------------------------------------------------ the sanitizer on its own
\* _sanitize_json_floats(x) for every tree x, and the function applied again
\* to the tree it returned.  san.rets holds the returned pairs
\* (cleaned, changed) in the order of the calls.
SanitizerInit ==
    /\ PipelineInit
    /\ impl = "execute_tool" /\ repair_budget = 0
    /\ registry = AdapterCode("pre_good", "post_good")
    /\ san \in {[x |-> x, rets |-> <<>>] : x \in Trees(MaxDepth)}
    /\ clock = 0 /\ dirs = <<>> /\ calls = <<>> /\ cancelled = FALSE
    /\ adapters = <<>>

SanitizeInput ==
    /\ san.rets = <<>>
    /\ san' = [san EXCEPT !.rets = <<_sanitize_json_floats(san.x)>>]
    /\ UNCHANGED <<Pipeline, clock, dirs, calls, cancelled, adapters>>

SanitizeAgain ==
    /\ Len(san.rets) = 1
    /\ san' = [san EXCEPT !.rets = Append(@, _sanitize_json_floats(@[1].tree))]
    /\ UNCHANGED <<Pipeline, clock, dirs, calls, cancelled, adapters>>

SanitizerNext == SanitizeInput \/ SanitizeAgain

SanitizerSpec == SanitizerInit /\ [][SanitizerNext]_vars

\* ------------------------------------------- calls running side by side
\* What execute_tool calls that overlap do to the directories under
\* WORKDIR_BASE: each call is a sequence of steps on the file system, and
\* the steps of different calls interleave.  A file is modelled by the call
\* whose data it holds (0: no file).
Tools == {"t1", "t2"}
CallIds == 1..MaxCalls
NoDir == <<"", 0>>

\* exec_id = f"{tool_id}_{int(time.time() * 1000)}"; work_dir = WORKDIR_BASE / exec_id
exec_id(tool_id, now) == <<tool_id, now>>
DirNames == {exec_id(t, n) : t \in Tools, n \in 0..MaxClock}

NoSuchDir == [exists |-> FALSE, input |-> 0, output |-> 0]
NoPair == AdapterCode("", "")
IdleCall == [pc |-> "idle", work_dir |-> NoDir, tool_output |-> 0,
             adapter |-> NoPair, current |-> NoPair, wrote |-> NoPair]
\* The registry's sources of every tool before any call, and the one
\* replacement the Oracle gives for each phase in this specification.
StoredAdapter == AdapterCode("pre_raise", "post_raise")
FixedPre  == "pre_good"
FixedPost == "post_good"

ConcurrentInit ==
    /\ PipelineInit
    /\ impl = "execute_tool" /\ repair_budget = 0
    /\ registry = AdapterCode("pre_good", "post_good")
    /\ san = [x |-> Absent, rets |-> <<>>]
    /\ clock = 0
    /\ dirs = [d \in DirNames |-> NoSuchDir]
    /\ calls = [c \in CallIds |-> IdleCall]
    /\ cancelled = FALSE
    /\ adapters = [t \in Tools |-> StoredAdapter]

\* time passes
Tick ==
    /\ clock < MaxClock
    /\ clock' = clock + 1
    /\ UNCHANGED <<Pipeline, san, dirs, calls, cancelled, adapters>>

\* get_tool(tool_id) loads the adapter; work_dir.mkdir(parents=True,
\* exist_ok=True): an existing directory is taken as it is
CallStart(c) ==
    /\ calls[c].pc = "idle"
    /\ \E tool_id \in Tools :
         LET d == exec_id(tool_id, clock)
         IN  /\ dirs' = [dirs EXCEPT ![d].exists = TRUE]
             /\ calls' = [calls EXCEPT ![c].pc = "made", ![c].work_dir = d,
                                       ![c].adapter = adapters[tool_id],
                                       ![c].current = adapters[tool_id]]
    /\ UNCHANGED <<Pipeline, san, clock, cancelled, adapters>>

\* the pre-process loop: `current_pre_code = fixed_code` after a failed
\* attempt and an accepted reply
CallRepairsPre(c) ==
    /\ calls[c].pc = "made"
    /\ calls[c].current.pre # FixedPre
    /\ calls' = [calls EXCEPT ![c].current.pre = FixedPre]
    /\ UNCHANGED <<Pipeline, san, clock, dirs, cancelled, adapters>>

\* open(work_dir / "input_data.json", "w"); when the directory is gone the
\* open raises and the call goes to its finally block
WriteInput(c) ==
    /\ calls[c].pc = "made"
    /\ LET d == calls[c].work_dir
       IN  IF dirs[d].exists
           THEN /\ dirs' = [dirs EXCEPT ![d].input = c]
                /\ calls' = [calls EXCEPT ![c].pc = "written"]
           ELSE /\ calls' = [calls EXCEPT ![c].pc = "finally"]
                /\ UNCHANGED dirs
    /\ UNCHANGED <<Pipeline, san, clock, cancelled, adapters>>

\* _execute_subprocess with cwd = work_dir: the tool reads the input file
\* that is there and writes its result to output_data.json
RunTool(c) ==
    /\ calls[c].pc = "written"
    /\ LET d == calls[c].work_dir
       IN  IF dirs[d].exists /\ dirs[d].input # 0
           THEN /\ dirs' = [dirs EXCEPT ![d].output = dirs[d].input]
                /\ calls' = [calls EXCEPT ![c].pc = "ran"]
           ELSE /\ calls' = [calls EXCEPT ![c].pc = "finally"]
                /\ UNCHANGED dirs
    /\ UNCHANGED <<Pipeline, san, clock, cancelled, adapters>>

\* `if output_file.exists():` read it; the text goes on to post-process
ReadOutput(c) ==
    /\ calls[c].pc = "ran"
    /\ LET d == calls[c].work_dir
       IN  calls' = [calls EXCEPT ![c].pc = "post",
                                  ![c].tool_output =
                                      IF dirs[d].exists THEN dirs[d].output ELSE 0]
    /\ UNCHANGED <<Pipeline, san, clock, dirs, cancelled, adapters>>

\* the post-process loop: `current_post_code = fixed_code`
CallRepairsPost(c) ==
    /\ calls[c].pc = "post"
    /\ calls[c].current.post # FixedPost
    /\ calls' = [calls EXCEPT ![c].current.post = FixedPost]
    /\ UNCHANGED <<Pipeline, san, clock, dirs, cancelled, adapters>>

\* the end of a successful call: when a source was replaced,
\* update_tool_adapter(tool_id, AdapterCode(current_pre_code,
\* current_post_code)) rewrites the tool's adapter.json in one synchronous
\* call.  A call whose post-process still fails returns without writing.
CallWriteBack(c) ==
    /\ calls[c].pc = "post"
    /\ LET tool_id == calls[c].work_dir[1]
       IN  \E post_ok \in BOOLEAN :
             IF post_ok /\ calls[c].current # calls[c].adapter
             THEN /\ adapters' = [adapters EXCEPT ![tool_id] = calls[c].current]
                  /\ calls' = [calls EXCEPT ![c].pc = "finally",
                                            ![c].wrote = calls[c].current]
             ELSE /\ calls' = [calls EXCEPT ![c].pc = "finally"]
                  /\ UNCHANGED adapters
    /\ UNCHANGED <<Pipeline, san, clock, dirs, cancelled>>

\* finally: shutil.rmtree(work_dir), errors ignored
CallEnd(c) ==
    /\ calls[c].pc = "finally"
    /\ dirs' = [dirs EXCEPT ![calls[c].work_dir] = NoSuchDir]
    /\ calls' = [calls EXCEPT ![c].pc = "done"]
    /\ UNCHANGED <<Pipeline, san, clock, cancelled, adapters>>

ConcurrentNext ==
    \/ Tick
    \/ \E c \in CallIds : CallStart(c)
    \/ \E c \in CallIds : CallRepairsPre(c)
    \/ \E c \in CallIds : WriteInput(c)
    \/ \E c \in CallIds : RunTool(c)
    \/ \E c \in CallIds : ReadOutput(c)
    \/ \E c \in CallIds : CallRepairsPost(c)
    \/ \E c \in CallIds : CallWriteBack(c)
    \/ \E c \in CallIds : CallEnd(c)

ConcurrentSpec == ConcurrentInit /\ [][ConcurrentNext]_vars

\* The pipeline when every step that can be taken is taken in the end: each
\* adapter attempt, each consultation and the wait for the child return.
FairSpec == Spec /\ WF_vars(Next)

\* --------------------------------------------------- a call is cancelled
\* The caller of the coroutine execute_tool gives the call up
\* (task.cancel()).  The function reads no cancellation signal; asyncio
\* raises CancelledError inside the call where it is suspended, which is
\* only at `await repair_adapter(...)`.  CancelledError is not an Exception,
\* so it passes both except clauses and the finally block runs.
Cancel ==
    /\ pc \notin {"idle", "done"}
    /\ ~cancelled
    /\ cancelled' = TRUE
    /\ UNCHANGED <<Pipeline, san, clock, dirs, calls, adapters>>

CancelDelivered ==
    /\ InRepair
    /\ cancelled
    /\ pc' = "done"
    /\ result' = Raised
    /\ Cleanup
    /\ UNCHANGED <<impl, repair_budget, registry, adapter, current_pre_code,
                   current_post_code, attempt, repair_attempts_used,
                   provider_attempt, bop_data, child, stdout, tool_output,
                   updated_bop, last_error, hist>>
    /\ UNCHANGED Aside

CancelNext ==
    \/ StartExecuteTool
    \/ StartRunSingleExecution
    \/ PreAttempt
    \/ OracleProviderUnavailable
    \/ OracleAttemptFails
    \/ OracleReplies
    \/ Launch
    \/ Subprocess
    \/ PostAttempt
    \/ Sanitize
    \/ Boundary
    \/ Cancel
    \/ CancelDelivered

CancelSpec == Init /\ [][CancelNext]_vars

\* ================================================================ claims
Done == pc = "done"
Succeeded == Done /\ result.kind = "returned" /\ result.success

\* C1: for every budget k the Oracle consultations of one call, pre-process
\* and post-process together, never exceed k, the reported
\* repair_attempts_used never exceeds k, and with k = 0 there is none.
C1_ConsultationsWithinBudget ==
    /\ hist.consults <= repair_budget
    /\ result.repair_attempts_used <= repair_budget
    /\ (repair_budget = 0 => hist.consults = 0)

\* C2: a subprocess failure (timeout, non-zero exit, no output) ends the
\* call: the call is over and failed, no consultation follows it, and a
\* repair is never under way once the tool has failed; with an adapter
\* that worked and a tool exiting with status 1 there is no consultation
\* at all and repair_attempts_used is 0.
SubprocessFailed == hist.sub \in {"timeout", "nonzero", "no_output"}
C2_SubprocessFailureIsTerminal ==
    /\ SubprocessFailed =>
          /\ Done /\ ~result.success
          /\ hist.consults = hist.consults_at_sub
    /\ InRepair => ~SubprocessFailed
    /\ (hist.sub = "nonzero" /\ hist.pre_attempts = 1) =>
          hist.consults = 0 /\ repair_attempts_used = 0

\* C3 (execute_tool): the phases come in the order PRE_PROCESS, SUBPROCESS,
\* POST_PROCESS, SANITIZE, DONE.  The tool is launched only after a
\* pre-process attempt succeeded, post-process is attempted only after exit
\* status zero, sanitization runs only after a post-process attempt
\* succeeded, success is returned only after sanitization and the
\* serialization check, and no step of a call goes back to an earlier phase.
Rank(p) ==
    CASE p \in {"pre", "pre_repair"}   -> 1
      [] p \in {"sub", "wait"}         -> 2
      [] p \in {"post", "post_repair"} -> 3
      [] p = "sanitize"                -> 4
      [] p = "boundary"                -> 5
      [] p = "done"                    -> 6
      [] OTHER                         -> 0
PhasesInOrder ==
    /\ hist.launched => hist.pre_ok
    /\ pc = "sub" => hist.pre_ok
    /\ (hist.post_attempts > 0 \/ pc = "post") => hist.return_code = 0
    /\ (hist.sanitize_ran \/ pc = "sanitize") => hist.post_ok
    /\ pc = "boundary" => hist.sanitize_ran
    /\ Succeeded => hist.sanitize_ran /\ hist.dumps_ok
C3_PhaseOrder ==
    /\ [](impl = "execute_tool" => PhasesInOrder)
    /\ [][impl = "execute_tool" /\ pc \notin {"idle", "done"}
             => Rank(pc') >= Rank(pc)]_vars
\* a call that went through every phase and succeeded
C3_Witness ==
    /\ impl = "execute_tool" /\ Succeeded
    /\ hist.pre_attempts = 2 /\ hist.post_attempts = 2

\* C4: on a pre-process or post-process failure with budget left the Oracle
\* is consulted once; a non-empty reply replaces that phase's source in full
\* and the same phase is attempted again; a decline (None or empty) ends the
\* call at once with success = false and the last captured error, whatever
\* budget is left.
AttemptFailed ==
    \/ pc = "pre" /\ pc' # "sub"
    \/ pc = "post" /\ pc' # "sanitize" /\ ~result'.success
C4_Step ==
    /\ (AttemptFailed /\ attempt < repair_budget) =>
          /\ pc' = (IF pc = "pre" THEN "pre_repair" ELSE "post_repair")
          /\ hist'.consults = hist.consults + 1
    /\ (InRepair /\ hist'.reply \notin {"", NoCode} /\ provider_attempt' = provider_attempt) =>
          /\ pc' = (IF pc = "pre_repair" THEN "pre" ELSE "post")
          /\ pc = "pre_repair" =>
                current_pre_code' = hist'.reply /\ current_post_code' = current_post_code
          /\ pc = "post_repair" =>
                current_post_code' = hist'.reply /\ current_pre_code' = current_pre_code
          /\ attempt' = attempt + 1
    /\ (InRepair /\ pc' \notin {pc, "pre", "post"}) =>
          /\ pc' = "done"
          /\ hist'.reply \in {"", NoCode}
          /\ result'.kind = "returned" /\ ~result'.success
          /\ result'.error = last_error
          /\ hist'.consults = hist.consults
C4_RepairProtocol == [][C4_Step]_vars

\* C5 (Scenario A): with budget 1 a pre-process function of one parameter
\* fails its first attempt with the signature error and is not invoked; when
\* the Oracle returns a correct source the second attempt succeeds, and if
\* the tool and post-process work the call succeeds with one repair used.
ScenarioA ==
    /\ repair_budget = 1 /\ adapter.pre = "pre_arity1"
    /\ hist.reply = "pre_good"
ToolAndPostWork ==
    /\ hist.sub = "output" /\ hist.post_attempts = 1 /\ hist.post_failures = 0
    /\ impl = "execute_tool" => hist.dumps_ok
C5_ScenarioA ==
    /\ (pc = "pre_repair" /\ current_pre_code = "pre_arity1") =>
          /\ last_error = "ValueError:signature" /\ ~hist.invoked
          /\ ~hist.pre_ok /\ hist.pre_attempts = attempt + 1
    /\ (ScenarioA /\ pc # "pre") =>
          hist.pre_ok /\ hist.pre_attempts = 2
    /\ (ScenarioA /\ pc = "sub") =>
          hist.invoked /\ repair_attempts_used = 1 /\ hist.consults = 1
    /\ (ScenarioA /\ Done /\ ToolAndPostWork) =>
          /\ Succeeded
          /\ repair_attempts_used = 1 /\ hist.consults = 1
          /\ impl = "run_single_execution" => result.repair_attempts_used = 1
C5_Witness == ScenarioA /\ ToolAndPostWork /\ Succeeded

\* C6: the repair counter always equals the number of Oracle consultations
\* started in the call.
C6_CounterEqualsConsultations == repair_attempts_used = hist.consults

\* C7 (as stated): a successful call whose final sources differ from the
\* loaded ones leaves the complete new AdapterCode in the registry.
SourcesDiffer ==
    current_pre_code # adapter.pre \/ current_post_code # adapter.post
C8_RegistryAccess ==
    (impl = "execute_tool" /\ pc # "idle") =>
      /\ hist.reg_reads = 1
      /\ hist.reg_write_calls <= 1
      /\ ~Done => hist.reg_write_calls = 0 /\ registry = adapter
      /\ (Done /\ ~Succeeded) => hist.reg_write_calls = 0 /\ registry = adapter
C8_Witness ==
    /\ impl = "execute_tool" /\ Done /\ ~Succeeded /\ SourcesDiffer
    /\ result.error_phase = "serialization"

\* C9: execute never raises to its caller; every call that ends has returned
\* a structured result.
C9_NeverRaises == result.kind # "raised" /\ (Done => result.kind = "returned")

\* C10: whenever a result has success = true, the updated domain object it
\* carries is encodable and holds no non-finite number at any depth.
C10_SuccessIsFinite ==
    Succeeded =>
        json_dumps_ok(result.updated_bop) /\ ~HasNonFinite(result.updated_bop)

\* C11: a failure to serialize the post-process result is terminal: the
\* step at which json.dumps of the result raises ends the call with
\* success = false, starts no Oracle consultation, leaves the repair counter
\* as it was and is followed by no further post-process attempt, for every
\* repair budget.
C11_Step ==
    (hist'.ser_failed /\ ~hist.ser_failed) =>
        /\ pc' = "done" /\ ~result'.success
        /\ hist'.consults = hist.consults
        /\ repair_attempts_used' = repair_attempts_used
C11_SerializationFailureIsTerminal ==
    /\ [](hist.ser_failed => Done /\ ~result.success)
    /\ [][C11_Step]_vars

HandedToPost == hist.return_code = 0 /\ (pc = "post" \/ hist.post_attempts > 0)
FilePopulated == hist.file \in {"content", "unreadable"}
C13_OutputPrecedence ==
    HandedToPost =>
        IF FilePopulated THEN tool_output = "F" ELSE tool_output = stdout

\* C14 (execute_tool): a successful result built from the standard-output
\* fallback is distinguishable from one built from the output file: it
\* differs from the result the same standard output gives when the tool also
\* wrote a populated output file.
C14_FallbackRecorded ==
    (impl = "execute_tool" /\ Succeeded /\ hist.file \in {"missing", "empty"}) =>
        result.tool_output # ResolveOutput("content", result.stdout)

\* C15: exit status zero with neither a non-empty output file nor standard
\* output fails the call with NoOutputProduced in the subprocess phase:
\* post-process is not invoked and the result has success = false.
C15_NoOutputFails ==
    hist.sub = "no_output" =>
        /\ Done /\ result.kind = "returned" /\ ~result.success
        /\ result.error = "NoOutput"
        /\ hist.post_attempts = 0

\* C16: a tool that runs past the timeout makes the call end with the
\* timeout failure, post-process is never attempted, and once a call has
\* returned its child process is not running.
C16_TimeoutEnforced ==
    /\ hist.sub = "timeout" =>
          /\ Done /\ result.kind = "returned" /\ ~result.success
          /\ result.error = "TimeoutError"
          /\ hist.post_attempts = 0 /\ child = "killed"
    /\ Done => child # "running"
C16_Witness == Done /\ hist.sub = "timeout" /\ child = "killed"

\* C17: once a call has returned, the scratch directory it created no
\* longer exists, on every exit path.
C17_ScratchRemoved == Done => work_dir # "exists"

\* C20: a pre-process function declared with one parameter is rejected by the
\* signature test: the attempt fails with the signature error, the function
\* is not called and the domain object is as the attempt found it.
OneParameter(code) == SourceOf(code).defines /\ SourceOf(code).arity = 1
C20_Step ==
    (pc = "pre" /\ OneParameter(current_pre_code) /\ pc' # "idle") =>
        /\ last_error' = "ValueError:signature"
        /\ ~hist'.invoked /\ ~hist'.pre_ok
        /\ bop_data' = bop_data
        /\ pc' \in {"pre_repair", "done"}
C20_OneParameterRejected == [][C20_Step]_vars
C20_Witness ==
    /\ pc = "pre_repair" /\ OneParameter(current_pre_code)
    /\ last_error = "ValueError:signature" /\ attempt = 0

\* C19: the sanitizer is idempotent and a no-op on clean input: applied to
\* the tree it returned it returns that tree with was_modified = false, and
\* for a tree without a non-finite value it returns an equal tree with
\* was_modified = false.
C19_SanitizerIdempotent ==
    /\ (Len(san.rets) >= 1 /\ ~HasNonFinite(san.x)) =>
          san.rets[1] = [tree |-> san.x, changed |-> FALSE]
    /\ Len(san.rets) = 2 =>
          san.rets[2] = [tree |-> san.rets[1].tree, changed |-> FALSE]
\* a nested tree whose non-finite value was replaced, sanitized twice
C19_Witness ==
    /\ Len(san.rets) = 2 /\ san.rets[1].changed
    /\ san.x.t = "dict" /\ Len(san.x.c) = 1 /\ san.x.c[1].t = "list"
    /\ san.rets[1].tree # san.x

\* C18: two execute calls that overlap use distinct scratch directories: a
\* call in flight has a directory no other call in flight has, that
\* directory is there until the call itself removes it, and the output a
\* call reads was computed from its own input.
InFlight(c) == calls[c].pc \in {"made", "written", "ran", "post", "finally"}
C18_DistinctScratchDirs ==
    /\ \A a, b \in CallIds :
          (a # b /\ InFlight(a) /\ InFlight(b)) =>
              calls[a].work_dir # calls[b].work_dir
    /\ \A c \in CallIds :
          /\ calls[c].pc \in {"made", "written", "ran"} =>
                dirs[calls[c].work_dir].exists
          /\ calls[c].tool_output \in {0, c}

\* C21: a source that imports a module outside the allow-list, wherever the
\* import stands, fails its attempt with the import error before any other
\* statement of it has run: the adapter function is not entered and the
\* domain object is as the attempt found it.
ImportsDisallowed(code) ==
    SourceOf(code).top = "ImportError" \/ SourceOf(code).body = "mutate_import"
C21_Step ==
    (pc = "pre" /\ ImportsDisallowed(current_pre_code) /\ pc' # "pre") =>
        /\ last_error' = "ImportError"
        /\ ~hist'.invoked
        /\ bop_data' = bop_data
C21_ImportRejectedFirst == [][C21_Step]_vars

\* C22 (execute_tool): every result with success = false, whatever the
\* failure path, carries a non-empty message and the category of the last
\* error.
C22_FailureCarriesCategory ==
    (impl = "execute_tool" /\ Done /\ result.kind = "returned" /\ ~result.success) =>
        result.message # "" /\ result.error_type # ""

\* C23: once a call has been cancelled it starts no further Oracle
\* consultation, its repair counter does not increase again, its child
\* process, if one is running, is killed, and when the call is over its
\* scratch directory is gone.
C23_Step ==
    (impl = "execute_tool" /\ cancelled) =>
        /\ hist'.consults = hist.consults
        /\ repair_attempts_used' = repair_attempts_used
        /\ child = "running" => child' = "killed"
C23_CancellationHonoured ==
    /\ []((cancelled /\ Done) => work_dir # "exists")
    /\ [][C23_Step]_vars

\* C24 (execute_tool): a consultation retries a failed provider attempt
\* fewer than max_retries times, and a consultation that ended without a
\* reply only because of connection errors is not counted: the counter stays
\* below the number of consultations started.
C24_TransientFailureIsFree ==
    /\ InRepair => provider_attempt < max_retries
    /\ (impl = "execute_tool" /\ Done /\ hist.transient_end) =>
           repair_attempts_used < hist.consults

\* C25: every attempt of a phase runs the reply last accepted for that
\* phase in this call, or the loaded source when none was accepted: the
\* source handed to the attempt is that one and the attempt's outcome is the
\* outcome of running it; a consultation for one phase leaves the other
\* phase's source as it was.  What post-process does with a returned value
\* depends only on whether the value is a dict, so the two values PyNone
\* and the empty dict stand for all of them.
ExpectedPre  == IF hist.accepted_pre = "" THEN adapter.pre ELSE hist.accepted_pre
ExpectedPost == IF hist.accepted_post = "" THEN adapter.post ELSE hist.accepted_post
C25_Step ==
    /\ (pc = "pre" /\ pc' # "pre") =>
           LET r == _run_preprocessor(ExpectedPre, bop_data)
           IN  /\ bop_data' = r.bop
               /\ hist'.invoked = r.invoked
               /\ r.ok = (pc' = "sub")
               /\ ~r.ok => last_error' = r.err
    /\ (pc = "post" /\ pc' # "post") =>
           \E ret \in {PyNone, Node("dict", <<>>)} :
               LET r == _run_postprocessor(ExpectedPost, bop_data, ret)
               IN  /\ bop_data' = r.bop
                   /\ r.ok => (hist'.post_ok \/ last_error' = "TypeError:json")
                   /\ ~r.ok => last_error' = r.err
    /\ pc = "pre_repair" => current_post_code' = current_post_code
    /\ pc = "post_repair" => current_pre_code' = current_pre_code
C27_DeclineStep ==
    (InRepair /\ pc' = "done") =>
        /\ result'.kind = "returned"
        /\ hist'.reply = NoCode
C27_Step ==
    InRepair =>
        \/ /\ pc' = pc
           /\ provider_attempt' = provider_attempt + 1
        \/ /\ pc' = (IF pc = "pre_repair" THEN "pre" ELSE "post")
           /\ hist'.reply \notin {"", NoCode}
        \/ /\ pc' = "done"
           /\ hist'.reply \in {"", NoCode}
           /\ result'.kind = "returned" /\ ~result'.success
           /\ result'.error_phase = (IF pc = "pre_repair" THEN "pre_process"
                                                         ELSE "post_process")
           /\ current_pre_code' = current_pre_code
           /\ current_post_code' = current_post_code
C28_CallerObjectUntouched ==
    hist.caller_bop = "B0"
C28_Witness ==
    /\ Done
    /\ bop_data = "BX"
    /\ hist.caller_bop = "B0"

\* C29: every attempt of pre-process and of post-process, re-attempts after
\* a repair included, is handed a domain object equal to the one the caller
\* passed in.
C29_AttemptsSeePristineObject ==
    pc \in {"pre", "post"} => bop_data = "B0"

\* C26: with calls running side by side, the registry holds for every tool
\* the pair it held before the calls or a pair one call wrote as a whole,
\* and a call changes nothing another call in flight can see except
\* through that write: the files in another call's scratch directory stay
\* as they are when it is not that call that takes the step.
C26_WholePairs ==
    \A t \in Tools :
        \/ adapters[t] = StoredAdapter
        \/ \E c \in CallIds : calls[c].wrote = adapters[t]
C26_Step ==
    \A c \in CallIds :
        (InFlight(c) /\ calls'[c] = calls[c]) =>
            dirs'[calls[c].work_dir] = dirs[calls[c].work_dir]
C26_WriteBackIsOnlySharedState ==
    /\ []C26_WholePairs
    /\ [][C26_Step]_vars

\* C30: every call ends with a returned result: a call in flight gets to
\* its end, what it ends with is a returned result, each phase makes at most
\* repair_budget + 1 attempts, and a phase is entered again only after the
\* counter and the loop index have gone up by one.
C30_AttemptsBounded ==
    /\ hist.pre_attempts <= repair_budget + 1
    /\ hist.post_attempts <= repair_budget + 1
C30_Step ==
    (InRepair /\ pc' \in {"pre", "post"}) =>
        /\ attempt' = attempt + 1
        /\ attempt' <= repair_budget
        /\ repair_attempts_used >= attempt'
C30_Terminates == (pc \notin {"idle", "done"}) ~> Done
C30_TerminatesWithOneResult ==
    /\ [](Done => result.kind = "returned")
    /\ []C30_AttemptsBounded
    /\ [][C30_Step]_vars
    /\ C30_Terminates

====
